---- MODULE Spec2Model ----
(***************************************************************************)
(* Event-source reconciliation of zappa/utilities.py: get_event_source,    *)
(* the SqsEventSource adapter it defines, and the entry points             *)
(* add_event_source / remove_event_source / get_event_source_status,       *)
(* run against an event-source-mapping provider.                           *)
(*                                                                         *)
(* Strings that the code splits and joins are sequences of tokens: the     *)
(* token ":" is the colon, every other token is a colon-free, non-empty    *)
(* piece of text.  No service name is the concatenation of several tokens  *)
(* of the alphabets used below, so comparing token sequences is comparing  *)
(* the strings they spell.                                                 *)
(***************************************************************************)
EXTENDS Integers, Sequences, FiniteSets, TLC

VARIABLES mappings, nextUuid, last, threads, subscriptions

vars == <<mappings, nextUuid, last, threads, subscriptions>>

(***************************************************************************)
(* Bounds of the model.                                                    *)
(***************************************************************************)
\* provider-assigned UUIDs are 1..MaxUuid: at most MaxUuid creations in a run
MaxUuid == 2
\* at most MaxFaults provider calls of one operation fail for outside reasons
MaxFaults == 1
\* length of the function references (in tokens) of the resolution inputs
MaxLen == 4
\* the configured batch sizes are 1..MaxBatchSize, the windows 0..MaxWindow
MaxBatchSize == 15
MaxWindow == 3

(***************************************************************************)
(* Python values.                                                          *)
(***************************************************************************)
\* None, where the code stores a UUID or nothing
NoUuid == 0
\* None as the value of a call: the empty option; <<v>> is the value v
None == <<>>

Colon == ":"

\* str.split(":", maxsplit); maxsplit = -1 splits at every colon
RECURSIVE split(_, _)
split(s, maxsplit) ==
    IF maxsplit = 0 \/ ~(\E i \in 1..Len(s) : s[i] = Colon)
    THEN <<s>>
    ELSE LET i == CHOOSE k \in 1..Len(s) :
                     s[k] = Colon /\ \A j \in 1..(k - 1) : s[j] # Colon
         IN <<SubSeq(s, 1, i - 1)>>
                \o split(SubSeq(s, i + 1, Len(s)),
                         IF maxsplit < 0 THEN maxsplit ELSE maxsplit - 1)

\* ":".join(parts)
RECURSIVE join(_)
join(parts) ==
    IF Len(parts) = 0 THEN <<>>
    ELSE IF Len(parts) = 1 THEN parts[1]
    ELSE parts[1] \o <<Colon>> \o join(Tail(parts))

\* dict.get(key, default)
get(d, key, default) == IF key \in DOMAIN d THEN d[key] ELSE default

(***************************************************************************)
(* The provider: the event-source-mapping API behind self._lambda.call.    *)
(* A world w is the provider as one operation sees it:                     *)
(*   m, next   the mappings and the next UUID the provider assigns         *)
(*   log       the calls the operation has made, in order                  *)
(*   f         the calls that fail for outside reasons (throttling, the    *)
(*             network): position in log -> "ClientError" | "Exception"    *)
(*   live      TRUE: calls are served; FALSE: the answers of script are    *)
(*             replayed and the first call beyond them is left pending     *)
(***************************************************************************)
Errors == {"ClientError", "Exception"}

World(m, next, f) ==
    [m |-> m, next |-> next, log |-> <<>>, f |-> f,
     live |-> TRUE, script |-> <<>>, pending |-> <<>>]

Matches(mp, params) ==
    /\ ("FunctionName" \in DOMAIN params => mp.FunctionName = params.FunctionName)
    /\ ("EventSourceArn" \in DOMAIN params => mp.EventSourceArn = params.EventSourceArn)

\* the mappings of set S as a list, in the order of their creation
RECURSIVE Listing(_)
Listing(S) ==
    IF S = {} THEN <<>>
    ELSE LET first == CHOOSE x \in S : \A y \in S : x.UUID <= y.UUID
         IN <<first>> \o Listing(S \ {first})

HasUuid(m, params) ==
    /\ "UUID" \in DOMAIN params
    /\ \E mp \in m : mp.UUID = params.UUID

ByUuid(m, u) == CHOOSE mp \in m : mp.UUID = u

\* what the provider answers to one call: [m, next, exc, response]
Serve(m, next, api, params) ==
    CASE api = "list_event_source_mappings" ->
           [m |-> m, next |-> next, exc |-> "none",
            response |-> [EventSourceMappings |->
                            Listing({mp \in m : Matches(mp, params)})]]
      [] api = "create_event_source_mapping" ->
           LET mp == [UUID |-> next,
                      FunctionName |-> params.FunctionName,
                      EventSourceArn |-> params.EventSourceArn,
                      BatchSize |-> params.BatchSize,
                      MaximumBatchingWindowInSeconds |->
                          params.MaximumBatchingWindowInSeconds,
                      Enabled |-> params.Enabled]
           IN [m |-> m \cup {mp}, next |-> next + 1, exc |-> "none", response |-> mp]
      [] api = "update_event_source_mapping" ->
           IF ~("UUID" \in DOMAIN params) \/ params.UUID = NoUuid
           THEN \* the required parameter UUID is missing: refused before sending
                [m |-> m, next |-> next, exc |-> "Exception", response |-> None]
           ELSE IF ~HasUuid(m, params)
           THEN [m |-> m, next |-> next, exc |-> "ClientError", response |-> None]
           ELSE LET old == ByUuid(m, params.UUID)
                    new == [old EXCEPT
                              !.Enabled = get(params, "Enabled", @),
                              !.BatchSize = get(params, "BatchSize", @),
                              !.MaximumBatchingWindowInSeconds =
                                  get(params, "MaximumBatchingWindowInSeconds", @)]
                IN [m |-> (m \ {old}) \cup {new}, next |-> next,
                    exc |-> "none", response |-> new]
      [] api = "delete_event_source_mapping" ->
           IF ~HasUuid(m, params)
           THEN [m |-> m, next |-> next, exc |-> "ClientError", response |-> None]
           ELSE [m |-> m \ {ByUuid(m, params.UUID)}, next |-> next, exc |-> "none",
                 response |-> [UUID |-> params.UUID, State |-> "Deleting"]]
      [] api = "get_event_source_mapping" ->
           IF ~HasUuid(m, params)
           THEN [m |-> m, next |-> next, exc |-> "ClientError", response |-> None]
           ELSE [m |-> m, next |-> next, exc |-> "none",
                 response |-> ByUuid(m, params.UUID)]

\* self._lambda.call(api, **params) in world w: [w, exc, ret]
LambdaCall(w, api, params) ==
    LET i == Len(w.log) + 1
        entry(exc, ret) == [api |-> api, params |-> params, exc |-> exc, ret |-> ret]
    IN IF i <= Len(w.script)
       THEN \* an answer received earlier
            [w |-> [w EXCEPT !.log = Append(@, entry(w.script[i].exc, w.script[i].ret))],
             exc |-> w.script[i].exc, ret |-> w.script[i].ret]
       ELSE IF ~w.live
       THEN \* the call is still to be sent
            [w |-> [w EXCEPT !.pending = <<[api |-> api, params |-> params]>>],
             exc |-> "Blocked", ret |-> None]
       ELSE IF i \in DOMAIN w.f
       THEN [w |-> [w EXCEPT !.log = Append(@, entry(w.f[i], None))],
             exc |-> w.f[i], ret |-> None]
       ELSE LET a == Serve(w.m, w.next, api, params)
            IN [w |-> [w EXCEPT !.m = a.m, !.next = a.next,
                                !.log = Append(@, entry(a.exc, a.response))],
                exc |-> a.exc, ret |-> a.response]

(***************************************************************************)
(* Control flow.  A step of a method yields [w, exc, ret]: the world it    *)
(* leaves, the exception it raises ("none": it returns) and its value.     *)
(***************************************************************************)
\* return v
Value(w, v) == [w |-> w, exc |-> "none", ret |-> v]

\* r; k(r): an exception of r leaves the method, otherwise k goes on
Bind(r, k(_)) == IF r.exc # "none" THEN r ELSE k(r)

\* try: r / except <kinds>: log it; the value is None either way
Except(r, kinds) ==
    IF r.exc \in kinds THEN Value(r.w, None)
    ELSE [w |-> r.w, exc |-> r.exc, ret |-> None]

(***************************************************************************)
(* get_event_source.  An event source is its dictionary (a function from   *)
(* its keys); the object built for it is [cls, config], config being that  *)
(* same dictionary (self._config).                                         *)
(***************************************************************************)
\* mutant: one more service is given an adapter
event_source_map_extra ==
    (<<"dynamodb">> :> "DynamoDBStreamEventSource")
        @@ (<<"kinesis">> :> "KinesisEventSource")
        @@ (<<"s3">> :> "S3EventSource")
        @@ (<<"sns">> :> "ExtendedSnsEventSource")
        @@ (<<"sqs">> :> "SqsEventSource")
        @@ (<<"lambda">> :> "SqsEventSource")
        @@ (<<"events">> :> "CloudWatchEventSource")

event_source_map ==
    (<<"dynamodb">> :> "DynamoDBStreamEventSource")
        @@ (<<"kinesis">> :> "KinesisEventSource")
        @@ (<<"s3">> :> "S3EventSource")
        @@ (<<"sns">> :> "ExtendedSnsEventSource")
        @@ (<<"sqs">> :> "SqsEventSource")
        @@ (<<"events">> :> "CloudWatchEventSource")

\* mutant: the function reference is used as it is for every service
get_event_source_plain(event_source, lambda_arn, target_function, boto_session) ==
    LET arn == event_source.arn
        parts == split(arn, 3)
    IN IF Len(parts) # 4
       THEN [exc |-> "ValueError", msg |-> [text |-> "not enough values to unpack"],
             constructed |-> FALSE]
       ELSE LET svc == parts[3]
                event_source_func == get(event_source_map, svc, "None")
            IN IF event_source_func = "None"
               THEN [exc |-> "ValueError",
                     msg |-> [text |-> "Unknown event source: {0}", arg |-> arn],
                     constructed |-> FALSE]
               ELSE [exc |-> "none",
                     obj |-> [cls |-> event_source_func, config |-> event_source],
                     ctx |-> [session |-> boto_session],
                     funk |-> [name |-> lambda_arn, arn |-> lambda_arn],
                     constructed |-> TRUE]

\* [exc, msg, obj, ctx, funk, constructed]: exc = "none" when it returns
get_event_source(event_source, lambda_arn, target_function, boto_session) ==
    LET arn == event_source.arn
        parts == split(arn, 3)
    IN IF Len(parts) # 4
       THEN \* _, _, svc, _ = ... cannot unpack
            [exc |-> "ValueError", msg |-> [text |-> "not enough values to unpack"],
             constructed |-> FALSE]
       ELSE LET svc == parts[3]
                event_source_func == get(event_source_map, svc, "None")
            IN IF event_source_func = "None"
               THEN [exc |-> "ValueError",
                     msg |-> [text |-> "Unknown event source: {0}", arg |-> arn],
                     constructed |-> FALSE]
               ELSE LET split_arn == split(lambda_arn, -1)
                        arn_front == join(SubSeq(split_arn, 1, Len(split_arn) - 1))
                        arn_back == split_arn[Len(split_arn)]
                        ctx == IF svc = <<"s3">>
                               THEN [session |-> boto_session, environment |-> arn_back]
                               ELSE [session |-> boto_session]
                        funk == IF svc = <<"s3">>
                                THEN [name |-> join(<<arn_back, target_function>>),
                                      arn |-> arn_front]
                                ELSE [name |-> lambda_arn, arn |-> lambda_arn]
                    IN [exc |-> "none",
                        obj |-> [cls |-> event_source_func, config |-> event_source],
                        ctx |-> ctx, funk |-> funk, constructed |-> TRUE]

(***************************************************************************)
(* SqsEventSource.  A method takes the object, the function and the world  *)
(* and yields [w, exc, ret] (and self where it changes the configuration). *)
(* arn, batch_size and enabled are the properties the class inherits from  *)
(* kappa.event_source.base.EventSource.                                    *)
(***************************************************************************)
Sqs_arn(self) == self.config.arn

Sqs_batch_size(self) == get(self.config, "batch_size", 100)

Sqs_enabled(self) == get(self.config, "enabled", FALSE)

\* mutant: the default window is 1 from batch size 10 on
Sqs_batch_window_from10(self) ==
    get(self.config, "batch_window", IF Sqs_batch_size(self) >= 10 THEN 1 ELSE 0)

Sqs_batch_window(self) ==
    get(self.config, "batch_window", IF Sqs_batch_size(self) > 10 THEN 1 ELSE 0)

\* mutant: the mappings are listed for the function alone, whatever their source
Sqs_get_uuid_anysource(self, function, w) ==
    Bind(LambdaCall(w, "list_event_source_mappings",
                    [FunctionName |-> function.name]),
         LAMBDA response :
            Value(response.w,
                  IF Len(response.ret.EventSourceMappings) > 0
                  THEN response.ret.EventSourceMappings[1].UUID
                  ELSE NoUuid))

Sqs_get_uuid(self, function, w) ==
    Bind(LambdaCall(w, "list_event_source_mappings",
                    [FunctionName |-> function.name,
                     EventSourceArn |-> Sqs_arn(self)]),
         LAMBDA response :
            Value(response.w,
                  IF Len(response.ret.EventSourceMappings) > 0
                  THEN response.ret.EventSourceMappings[1].UUID
                  ELSE NoUuid))

\* mutant: the create call is made outside any try block
Sqs_add_unguarded(self, function, w) ==
    Bind(LambdaCall(w, "create_event_source_mapping",
                    [FunctionName |-> function.name,
                     EventSourceArn |-> Sqs_arn(self),
                     BatchSize |-> Sqs_batch_size(self),
                     MaximumBatchingWindowInSeconds |-> Sqs_batch_window(self),
                     Enabled |-> Sqs_enabled(self)]),
         LAMBDA response : Value(response.w, None))

Sqs_add(self, function, w) ==
    Except(LambdaCall(w, "create_event_source_mapping",
                      [FunctionName |-> function.name,
                       EventSourceArn |-> Sqs_arn(self),
                       BatchSize |-> Sqs_batch_size(self),
                       MaximumBatchingWindowInSeconds |-> Sqs_batch_window(self),
                       Enabled |-> Sqs_enabled(self)]),
           Errors)

\* self._config["enabled"] = value
SetEnabled(self, value) == [self EXCEPT !.config = ("enabled" :> value) @@ @]

\* the method's result, with the object as the method leaves it
WithSelf(r, self) == [w |-> r.w, exc |-> r.exc, ret |-> r.ret, self |-> self]

Sqs_enable(self, function, w) ==
    WithSelf(
        Except(Bind(Sqs_get_uuid(SetEnabled(self, TRUE), function, w),
                    LAMBDA uuid :
                       LambdaCall(uuid.w, "update_event_source_mapping",
                                  [UUID |-> uuid.ret,
                                   Enabled |-> Sqs_enabled(SetEnabled(self, TRUE))])),
               Errors),
        SetEnabled(self, TRUE))

Sqs_disable(self, function, w) ==
    WithSelf(
        Except(LambdaCall(w, "update_event_source_mapping",
                          [FunctionName |-> function.name,
                           Enabled |-> Sqs_enabled(SetEnabled(self, FALSE))]),
               Errors),
        SetEnabled(self, FALSE))

Sqs_update(self, function, w) ==
    Bind(Sqs_get_uuid(self, function, w),
         LAMBDA uuid :
            IF uuid.ret # NoUuid
            THEN Except(LambdaCall(uuid.w, "update_event_source_mapping",
                                   [BatchSize |-> Sqs_batch_size(self),
                                    MaximumBatchingWindowInSeconds |->
                                        Sqs_batch_window(self),
                                    Enabled |-> Sqs_enabled(self),
                                    FunctionName |-> function.arn]),
                        Errors)
            ELSE Value(uuid.w, None))

\* mutant: the delete call is made whether or not a UUID was found
Sqs_remove_unchecked(self, function, w) ==
    Bind(Sqs_get_uuid(self, function, w),
         LAMBDA uuid :
            Bind(LambdaCall(uuid.w, "delete_event_source_mapping",
                            [UUID |-> uuid.ret]),
                 LAMBDA response : Value(response.w, <<response.ret>>)))

Sqs_remove(self, function, w) ==
    Bind(Sqs_get_uuid(self, function, w),
         LAMBDA uuid :
            IF uuid.ret # NoUuid
            THEN Bind(LambdaCall(uuid.w, "delete_event_source_mapping",
                                 [UUID |-> uuid.ret]),
                      LAMBDA response : Value(response.w, <<response.ret>>))
            ELSE Value(uuid.w, None))

\* mutant: no except clause around the get call
Sqs_status_unguarded(self, function, w) ==
    Bind(Sqs_get_uuid(self, function, w),
         LAMBDA uuid :
            IF uuid.ret # NoUuid
            THEN Bind(Sqs_get_uuid(self, function, uuid.w),
                      LAMBDA again :
                         Bind(LambdaCall(again.w, "get_event_source_mapping",
                                         [UUID |-> again.ret]),
                              LAMBDA response : Value(response.w, <<response.ret>>)))
            ELSE Value(uuid.w, None))

\* try: get_event_source_mapping(UUID=self._get_uuid(function))
\* except ClientError: response = None
Sqs_status(self, function, w) ==
    Bind(Sqs_get_uuid(self, function, w),
         LAMBDA uuid :
            IF uuid.ret # NoUuid
            THEN LET tried ==
                       Bind(Sqs_get_uuid(self, function, uuid.w),
                            LAMBDA again :
                               Bind(LambdaCall(again.w, "get_event_source_mapping",
                                               [UUID |-> again.ret]),
                                    LAMBDA response :
                                       Value(response.w, <<response.ret>>)))
                 IN IF tried.exc = "ClientError" THEN Value(tried.w, None) ELSE tried
            ELSE Value(uuid.w, None))

(***************************************************************************)
(* The entry points: [g, w, exc, ret], g being what get_event_source       *)
(* yielded.  An exception of get_event_source leaves the entry point       *)
(* before anything else happens.                                           *)
(***************************************************************************)
\* event_source_obj, ctx, funk = get_event_source(...); k(those)
Resolved(g, w, k(_)) ==
    IF g.exc # "none" THEN [g |-> g, w |-> w, exc |-> g.exc, ret |-> None]
    ELSE [g |-> g, w |-> k(g).w, exc |-> k(g).exc, ret |-> k(g).ret]

\* mutant: the outcome of the second status query is read the wrong way round
add_event_source_swapped(event_source, lambda_arn, target_function, boto_session, dry, w) ==
    Resolved(
        get_event_source(event_source, lambda_arn, target_function, boto_session), w,
        LAMBDA g :
           IF ~dry
           THEN Bind(Sqs_status(g.obj, g.funk, w),
                     LAMBDA s1 :
                        IF s1.ret = None
                        THEN Bind(Sqs_add(g.obj, g.funk, s1.w),
                                  LAMBDA a :
                                     Bind(Sqs_status(g.obj, g.funk, a.w),
                                          LAMBDA s2 :
                                             Value(s2.w, IF s2.ret = None
                                                         THEN <<"successful">>
                                                         ELSE <<"failed">>)))
                        ELSE Value(s1.w, <<"exists">>))
           ELSE Value(w, <<"dryrun">>))

\* mutant: add is called without asking the status first
add_event_source_unchecked(event_source, lambda_arn, target_function, boto_session, dry, w) ==
    Resolved(
        get_event_source(event_source, lambda_arn, target_function, boto_session), w,
        LAMBDA g :
           IF ~dry
           THEN Bind(Sqs_add(g.obj, g.funk, w),
                     LAMBDA a :
                        Bind(Sqs_status(g.obj, g.funk, a.w),
                             LAMBDA s2 :
                                Value(s2.w, IF s2.ret # None
                                            THEN <<"successful">>
                                            ELSE <<"failed">>)))
           ELSE Value(w, <<"dryrun">>))

\* mutant: the dry flag is not looked at before the provider is changed
add_event_source_nodry(event_source, lambda_arn, target_function, boto_session, dry, w) ==
    Resolved(
        get_event_source(event_source, lambda_arn, target_function, boto_session), w,
        LAMBDA g :
           Bind(Sqs_status(g.obj, g.funk, w),
                LAMBDA s1 :
                   IF s1.ret = None
                   THEN Bind(Sqs_add(g.obj, g.funk, s1.w),
                             LAMBDA a :
                                Bind(Sqs_status(g.obj, g.funk, a.w),
                                     LAMBDA s2 :
                                        Value(s2.w, IF dry THEN <<"dryrun">>
                                                    ELSE IF s2.ret # None
                                                    THEN <<"successful">>
                                                    ELSE <<"failed">>)))
                   ELSE Value(s1.w, IF dry THEN <<"dryrun">> ELSE <<"exists">>)))

add_event_source(event_source, lambda_arn, target_function, boto_session, dry, w) ==
    Resolved(
        get_event_source(event_source, lambda_arn, target_function, boto_session), w,
        LAMBDA g :
           IF ~dry
           THEN Bind(Sqs_status(g.obj, g.funk, w),
                     LAMBDA s1 :
                        IF s1.ret = None
                        THEN Bind(Sqs_add(g.obj, g.funk, s1.w),
                                  LAMBDA a :
                                     Bind(Sqs_status(g.obj, g.funk, a.w),
                                          LAMBDA s2 :
                                             Value(s2.w, IF s2.ret # None
                                                         THEN <<"successful">>
                                                         ELSE <<"failed">>)))
                        ELSE Value(s1.w, <<"exists">>))
           ELSE Value(w, <<"dryrun">>))

\* funk.arn = lambda_arn
Repoint(g, lambda_arn) ==
    IF g.exc # "none" THEN g ELSE [g EXCEPT !.funk.arn = lambda_arn]

remove_event_source(event_source, lambda_arn, target_function, boto_session, dry, w) ==
    Resolved(
        Repoint(get_event_source(event_source, lambda_arn, target_function,
                                 boto_session),
                lambda_arn),
        w,
        LAMBDA g :
           IF ~dry THEN Sqs_remove(g.obj, g.funk, w)
           ELSE Value(w, <<g.obj>>))

get_event_source_status(event_source, lambda_arn, target_function, boto_session, dry, w) ==
    Resolved(
        get_event_source(event_source, lambda_arn, target_function, boto_session), w,
        LAMBDA g : Sqs_status(g.obj, g.funk, w))

(***************************************************************************)
(* Inputs of the reconciliation runs.                                      *)
(***************************************************************************)
Session == "boto_session"

Arn(svc, rest) == <<"arn", Colon, "aws", Colon>> \o svc \o <<Colon>> \o rest

QueueA == Arn(<<"sqs">>, <<"1", Colon, "a">>)
QueueB == Arn(<<"sqs">>, <<"1", Colon, "b">>)

SqsDescriptors ==
    { [arn |-> QueueA],
      [arn |-> QueueB, batch_size |-> 15, enabled |-> TRUE] }

\* an adapter of the kappa library, a service without adapter, no service
Descriptors ==
    SqsDescriptors
        \cup { [arn |-> Arn(<<"s3">>, <<Colon, Colon, "bucket">>)],
               [arn |-> Arn(<<"lambda">>, <<"1", Colon, "f">>)],
               [arn |-> Arn(<<>>, <<"a">>), batch_size |-> 15] }

LambdaArn == <<"lambda", Colon, "my-func", Colon, "env">>

TargetFunction == <<"my-func">>

NoFaults == <<>>

\* the fault plans of a run: each puts its faults on calls the run makes
RECURSIVE FaultPlans(_, _)
FaultPlans(run(_), n) ==
    IF n = 0 THEN {NoFaults}
    ELSE LET fewer == FaultPlans(run, n - 1)
             full == {f \in fewer : Cardinality(DOMAIN f) = n - 1}
             after(f) == {i \in 1..Len(run(f).w.log) : \A j \in DOMAIN f : j < i}
         IN fewer \cup UNION { UNION { {f @@ (i :> e) : e \in Errors} : i \in after(f) }
                               : f \in full }

\* the adapters of the kappa library are not part of this source: a run that
\* calls one of their methods is outside the model
Modelled(r) ==
    IF r.g.exc # "none" \/ r.w.log = <<>> THEN TRUE
    ELSE r.g.obj.cls = "SqsEventSource"

\* what an operation leaves behind for the properties to read
Record(op, event_source, lambda_arn, target_function, dry, r, pre) ==
    [op |-> op, event_source |-> event_source, lambda_arn |-> lambda_arn,
     target_function |-> target_function, dry |-> dry,
     exc |-> r.exc, ret |-> r.ret, g |-> r.g, log |-> r.w.log, pre |-> pre]

Finish(op, event_source, dry, r) ==
    /\ Modelled(r)
    /\ r.w.next <= MaxUuid + 1
    /\ mappings' = r.w.m
    /\ nextUuid' = r.w.next
    /\ last' = Record(op, event_source, LambdaArn, TargetFunction, dry, r, mappings)
    /\ UNCHANGED <<threads, subscriptions>>

Init ==
    /\ mappings = {}
    /\ nextUuid = 1
    /\ last = [op |-> "init"]
    /\ threads = <<>>
    /\ subscriptions = {}

AddEventSource ==
    \E event_source \in Descriptors, dry \in BOOLEAN :
        LET run(f) == add_event_source(event_source, LambdaArn, TargetFunction,
                                       Session, dry, World(mappings, nextUuid, f))
        IN \E f \in FaultPlans(run, MaxFaults) :
               Finish("add_event_source", event_source, dry, run(f))

RemoveEventSource ==
    \E event_source \in Descriptors, dry \in BOOLEAN :
        LET run(f) == remove_event_source(event_source, LambdaArn, TargetFunction,
                                          Session, dry, World(mappings, nextUuid, f))
        IN \E f \in FaultPlans(run, MaxFaults) :
               Finish("remove_event_source", event_source, dry, run(f))

GetEventSourceStatus ==
    \E event_source \in Descriptors, dry \in BOOLEAN :
        LET run(f) == get_event_source_status(event_source, LambdaArn, TargetFunction,
                                              Session, dry, World(mappings, nextUuid, f))
        IN \E f \in FaultPlans(run, MaxFaults) :
               Finish("get_event_source_status", event_source, dry, run(f))

\* a method of the object get_event_source returns, called by its holder
Method(event_source, meth(_, _, _), w) ==
    Resolved(get_event_source(event_source, LambdaArn, TargetFunction, Session), w,
             LAMBDA g : meth(g.obj, g.funk, w))

Enable ==
    \E event_source \in SqsDescriptors :
        LET run(f) == Method(event_source, Sqs_enable, World(mappings, nextUuid, f))
        IN \E f \in FaultPlans(run, MaxFaults) :
               Finish("enable", event_source, FALSE, run(f))

Disable ==
    \E event_source \in SqsDescriptors :
        LET run(f) == Method(event_source, Sqs_disable, World(mappings, nextUuid, f))
        IN \E f \in FaultPlans(run, MaxFaults) :
               Finish("disable", event_source, FALSE, run(f))

Update ==
    \E event_source \in SqsDescriptors :
        LET run(f) == Method(event_source, Sqs_update, World(mappings, nextUuid, f))
        IN \E f \in FaultPlans(run, MaxFaults) :
               Finish("update", event_source, FALSE, run(f))

Next ==
    \/ AddEventSource
    \/ RemoveEventSource
    \/ GetEventSourceStatus
    \/ Enable
    \/ Disable
    \/ Update

Spec == Init /\ [][Next]_vars

(***************************************************************************)
(* Resolution alone: get_event_source on function references of every      *)
(* shape, for every service.                                               *)
(***************************************************************************)
Tokens == {Colon, "fn", "env"}

\* the token sequences of length n or less
RECURSIVE Strings(_)
Strings(n) ==
    IF n = 0 THEN {<<>>}
    ELSE LET shorter == Strings(n - 1)
         IN shorter \cup {Append(x, t) : x \in {y \in shorter : Len(y) = n - 1},
                                         t \in Tokens}

\* arn:aws:lambda:us-east-1:123:function:my-func:env
AliasArn ==
    <<"arn", Colon, "aws", Colon, "lambda", Colon, "us-east-1", Colon, "123",
      Colon, "function", Colon, "my-func", Colon, "env">>

FunctionRefs == Strings(MaxLen) \cup {AliasArn}

TargetFunctions == {<<"my-func">>, <<"fn">>}

ResolveDescriptors ==
    {[arn |-> Arn(svc, <<"x">>)] : svc \in DOMAIN event_source_map \cup {<<"lambda">>}}
        \cup {[arn |-> <<"arn", Colon, "aws">>]}

InitResolve ==
    /\ mappings = {}
    /\ nextUuid = 1
    /\ threads = <<>>
    /\ subscriptions = {}
    /\ \E event_source \in ResolveDescriptors, lambda_arn \in FunctionRefs,
          target_function \in TargetFunctions :
           last = [op |-> "init", event_source |-> event_source,
                   lambda_arn |-> lambda_arn, target_function |-> target_function]

GetEventSource ==
    /\ last.op = "init"
    /\ LET g == get_event_source(last.event_source, last.lambda_arn,
                                 last.target_function, Session)
       IN last' = Record("get_event_source", last.event_source, last.lambda_arn,
                         last.target_function, FALSE,
                         [g |-> g, w |-> World(mappings, nextUuid, NoFaults),
                          exc |-> g.exc, ret |-> None],
                         mappings)
    /\ UNCHANGED <<mappings, nextUuid, threads, subscriptions>>

SpecResolve == InitResolve /\ [][GetEventSource]_vars

(***************************************************************************)
(* Batching alone: one add_event_source for an SQS descriptor of every     *)
(* configuration, on a provider without mappings.                          *)
(***************************************************************************)
\* a key that is absent, or present with one of the values
Optional(key, values) == {<<>>} \cup {key :> v : v \in values}

BatchDescriptors ==
    {[arn |-> QueueA] @@ size @@ window @@ enabled :
        size \in Optional("batch_size", 1..MaxBatchSize),
        window \in Optional("batch_window", 0..MaxWindow),
        enabled \in Optional("enabled", BOOLEAN)}

InitBatch ==
    /\ mappings = {}
    /\ nextUuid = 1
    /\ threads = <<>>
    /\ subscriptions = {}
    /\ \E event_source \in BatchDescriptors :
           last = [op |-> "init", event_source |-> event_source]

AddOnce ==
    /\ last.op = "init"
    /\ LET run(f) == add_event_source(last.event_source, LambdaArn, TargetFunction,
                                      Session, FALSE, World(mappings, nextUuid, f))
       IN \E f \in FaultPlans(run, MaxFaults) :
              Finish("add_event_source", last.event_source, FALSE, run(f))

SpecBatch == InitBatch /\ [][AddOnce]_vars

(***************************************************************************)
(* Two invocations in parallel.  Each thread runs one add_event_source or  *)
(* remove_event_source; the threads meet only at the provider, one call    *)
(* at a time.  A thread is its invocation, the answers it has received     *)
(* (script), the calls that failed for outside reasons (f) and, once it    *)
(* has returned, its outcome.  The thread's position is recovered by       *)
(* running its entry point against the answers received so far.            *)
(***************************************************************************)
OtherArn == <<"lambda", Colon, "other">>

\* (descriptor, function reference) pairs; any two differ in source or function
ParPairs ==
    << <<[arn |-> QueueA], LambdaArn>>,
       <<[arn |-> QueueB, batch_size |-> 15, enabled |-> TRUE], LambdaArn>>,
       <<[arn |-> QueueA], OtherArn>> >>

ParOps == {"add_event_source", "remove_event_source"}

Invoke(call, w) ==
    IF call.op = "add_event_source"
    THEN add_event_source(call.event_source, call.lambda_arn, call.target_function,
                          Session, FALSE, w)
    ELSE remove_event_source(call.event_source, call.lambda_arn, call.target_function,
                             Session, FALSE, w)

\* the provider after add_event_source has run for the pairs of S, one by one
RECURSIVE Provision(_, _)
Provision(S, w) ==
    IF S = {} THEN w
    ELSE LET k == CHOOSE i \in S : \A j \in S : i <= j
             r == add_event_source(ParPairs[k][1], ParPairs[k][2], TargetFunction,
                                   Session, FALSE, World(w.m, w.next, NoFaults))
         IN Provision(S \ {k}, r.w)

Thread(op, pair) ==
    [call |-> [op |-> op, event_source |-> pair[1], lambda_arn |-> pair[2],
               target_function |-> TargetFunction],
     script |-> <<>>, f |-> NoFaults, done |-> FALSE, exc |-> "none", ret |-> None]

\* the world of a thread that has received the answers of script
Replaying(script) ==
    [World({}, NoUuid, NoFaults) EXCEPT !.live = FALSE, !.script = script]

InitPar ==
    \E i \in DOMAIN ParPairs, j \in DOMAIN ParPairs, op1 \in ParOps, op2 \in ParOps :
        /\ i < j
        /\ \E present \in SUBSET {i, j} :
              LET w == Provision(present, World({}, 1, NoFaults))
              IN /\ mappings = w.m
                 /\ nextUuid = w.next
                 /\ last = [op |-> "par", pre |-> w.m, next |-> w.next]
        /\ threads = <<Thread(op1, ParPairs[i]), Thread(op2, ParPairs[j])>>
        /\ subscriptions = {}

\* thread t sends its next call and the provider answers it
Call(t) ==
    LET r == Invoke(threads[t].call, Replaying(threads[t].script))
    IN /\ ~threads[t].done
       /\ r.exc = "Blocked"
       /\ LET a == Serve(mappings, nextUuid, r.w.pending[1].api, r.w.pending[1].params)
          IN /\ mappings' = a.m
             /\ nextUuid' = a.next
             /\ threads' = [threads EXCEPT
                              ![t].script = Append(@, [exc |-> a.exc, ret |-> a.response])]
       /\ UNCHANGED <<last, subscriptions>>

\* the next call of thread t fails for an outside reason
Fail(t) ==
    LET r == Invoke(threads[t].call, Replaying(threads[t].script))
    IN /\ ~threads[t].done
       /\ r.exc = "Blocked"
       /\ Cardinality(DOMAIN threads[t].f) < MaxFaults
       /\ \E e \in Errors :
             threads' = [threads EXCEPT
                           ![t].script = Append(@, [exc |-> e, ret |-> None]),
                           ![t].f = @ @@ ((Len(threads[t].script) + 1) :> e)]
       /\ UNCHANGED <<mappings, nextUuid, last, subscriptions>>

\* the entry point of thread t returns or raises
Return(t) ==
    LET r == Invoke(threads[t].call, Replaying(threads[t].script))
    IN /\ ~threads[t].done
       /\ r.exc # "Blocked"
       /\ threads' = [threads EXCEPT ![t].done = TRUE, ![t].exc = r.exc, ![t].ret = r.ret]
       /\ UNCHANGED <<mappings, nextUuid, last, subscriptions>>

NextPar ==
    \/ \E t \in DOMAIN threads : Call(t)
    \/ \E t \in DOMAIN threads : Fail(t)
    \/ \E t \in DOMAIN threads : Return(t)

SpecPar == InitPar /\ [][NextPar]_vars

(***************************************************************************)
(* The SNS adapter.  ExtendedSnsEventSource adds filter policies to the    *)
(* library's SNSEventSource; the library's add and exists and the topic    *)
(* provider behind self._sns.call are what the adapter relies on.          *)
(* A Python value of the "filters" key is [type |-> "NoneType"] or         *)
(* [type |-> "dict", items |-> <<[key, value], ...>>], the items in the    *)
(* order of insertion and each value a list of strings.                    *)
(***************************************************************************)
PyNone == [type |-> "NoneType"]

PyDict(items) == [type |-> "dict", items |-> items]

\* bool(v)
Truthy(v) == v.type = "dict" /\ v.items # <<>>

\* sep.join(parts), for texts that are sequences of tokens
RECURSIVE JoinWith(_, _)
JoinWith(sep, parts) ==
    IF parts = <<>> THEN <<>>
    ELSE IF Len(parts) = 1 THEN parts[1]
    ELSE parts[1] \o sep \o JoinWith(sep, Tail(parts))

dumps_str(x) == <<"\"", x, "\"">>

dumps_list(l) ==
    <<"[">> \o JoinWith(<<", ">>, [i \in 1..Len(l) |-> dumps_str(l[i])]) \o <<"]">>

\* json.dumps(v)
json_dumps(v) ==
    IF v.type = "NoneType" THEN <<"null">>
    ELSE <<"{">>
           \o JoinWith(<<", ">>,
                       [i \in 1..Len(v.items) |->
                           dumps_str(v.items[i].key) \o <<": ">>
                               \o dumps_list(v.items[i].value)])
           \o <<"}">>

\* the topic provider as one operation sees it
SnsWorld(subs, f) == [subs |-> subs, log |-> <<>>, f |-> f]

\* the subscriptions of set S as a list, in the order of their creation
RECURSIVE Subscriptions(_)
Subscriptions(S) ==
    IF S = {} THEN <<>>
    ELSE LET first == CHOOSE x \in S : \A y \in S : x.SubscriptionArn <= y.SubscriptionArn
         IN <<first>> \o Subscriptions(S \ {first})

\* what the topic provider answers to one call: [subs, exc, response]
SnsServe(subs, api, params) ==
    CASE api = "subscribe" ->
           LET same == {sub \in subs : /\ sub.TopicArn = params.TopicArn
                                       /\ sub.Endpoint = params.Endpoint}
               new == [SubscriptionArn |-> Cardinality(subs) + 1,
                       TopicArn |-> params.TopicArn,
                       Protocol |-> params.Protocol,
                       Endpoint |-> params.Endpoint,
                       FilterPolicy |-> None]
           IN IF same # {}
              THEN [subs |-> subs, exc |-> "none",
                    response |-> [SubscriptionArn |->
                                     (CHOOSE sub \in same : TRUE).SubscriptionArn]]
              ELSE [subs |-> subs \cup {new}, exc |-> "none",
                    response |-> [SubscriptionArn |-> new.SubscriptionArn]]
      [] api = "list_subscriptions_by_topic" ->
           [subs |-> subs, exc |-> "none",
            response |-> [Subscriptions |->
                            Subscriptions({sub \in subs :
                                             sub.TopicArn = params.TopicArn})]]
      [] api = "set_subscription_attributes" ->
           IF ~\E sub \in subs : sub.SubscriptionArn = params.SubscriptionArn
           THEN [subs |-> subs, exc |-> "ClientError", response |-> None]
           ELSE [subs |-> {IF sub.SubscriptionArn = params.SubscriptionArn
                              /\ params.AttributeName = "FilterPolicy"
                           THEN [sub EXCEPT !.FilterPolicy = <<params.AttributeValue>>]
                           ELSE sub : sub \in subs},
                 exc |-> "none", response |-> None]

\* self._sns.call(api, **params) in world w: [w, exc, ret]
SnsCall(w, api, params) ==
    LET i == Len(w.log) + 1
        entry(exc, ret) == [api |-> api, params |-> params, exc |-> exc, ret |-> ret]
    IN IF i \in DOMAIN w.f
       THEN [w |-> [w EXCEPT !.log = Append(@, entry(w.f[i], None))],
             exc |-> w.f[i], ret |-> None]
       ELSE LET a == SnsServe(w.subs, api, params)
            IN [w |-> [w EXCEPT !.subs = a.subs,
                                !.log = Append(@, entry(a.exc, a.response))],
                exc |-> a.exc, ret |-> a.response]

\* SNSEventSource.add of the library: subscribe the function to the topic
SnsBase_add(self, function, w) ==
    Except(SnsCall(w, "subscribe",
                   [TopicArn |-> self.config.arn, Protocol |-> "lambda",
                    Endpoint |-> function.arn]),
           Errors)

\* the first subscription of the list whose endpoint is arn: <<sub>> or None
RECURSIVE FirstFor(_, _)
FirstFor(subs, arn) ==
    IF subs = <<>> THEN None
    ELSE IF subs[1].Endpoint = arn THEN <<subs[1]>>
    ELSE FirstFor(Tail(subs), arn)

\* try: return r / except <kinds>: log it and fall off the end (None)
Caught(r, kinds) == IF r.exc \in kinds THEN Value(r.w, None) ELSE r

\* SNSEventSource.exists of the library: the function's subscription or None
SnsBase_exists(self, function, w) ==
    Caught(Bind(SnsCall(w, "list_subscriptions_by_topic",
                        [TopicArn |-> self.config.arn]),
                LAMBDA response :
                   Value(response.w,
                         FirstFor(response.ret.Subscriptions, function.arn))),
           Errors)

\* ExtendedSnsEventSource.filters
Sns_filters(self) == get(self.config, "filters", PyNone)

Sns_add_filters(self, function, w) ==
    Except(Bind(SnsBase_exists(self, function, w),
                LAMBDA subscription :
                   IF subscription.ret # None
                   THEN SnsCall(subscription.w, "set_subscription_attributes",
                                [SubscriptionArn |-> subscription.ret[1].SubscriptionArn,
                                 AttributeName |-> "FilterPolicy",
                                 AttributeValue |-> json_dumps(Sns_filters(self))])
                   ELSE Value(subscription.w, None)),
           Errors)

\* mutant: the filters are applied whether or not any are configured
Sns_add_unconditional(self, function, w) ==
    Bind(SnsBase_add(self, function, w),
         LAMBDA added : Sns_add_filters(self, function, added.w))

Sns_add(self, function, w) ==
    Bind(SnsBase_add(self, function, w),
         LAMBDA added :
            IF Truthy(Sns_filters(self))
            THEN Sns_add_filters(self, function, added.w)
            ELSE Value(added.w, None))

(***************************************************************************)
(* The SNS adapter alone: add for topic descriptors with and without       *)
(* filters, on a topic provider whose calls may fail.                      *)
(***************************************************************************)
TopicA == Arn(<<"sns">>, <<"1", Colon, "a">>)
TopicB == Arn(<<"sns">>, <<"1", Colon, "b">>)

\* {"event": ["created"]}
FiltersCreated == PyDict(<<[key |-> "event", value |-> <<"created">>]>>)

FilterValues ==
    {PyNone, PyDict(<<>>), FiltersCreated,
     PyDict(<<[key |-> "event", value |-> <<"created", "deleted">>],
              [key |-> "store", value |-> <<>>]>>)}

SnsDescriptors ==
    {[arn |-> TopicA]}
        \cup {[arn |-> TopicA, filters |-> v] : v \in FilterValues}
        \cup {[arn |-> TopicB, filters |-> FiltersCreated]}

\* the (descriptor, function reference) pairs add is called for
SnsTargets ==
    {<<event_source, LambdaArn>> : event_source \in SnsDescriptors}
        \cup {<<[arn |-> TopicA, filters |-> FiltersCreated], OtherArn>>}

SnsAdd ==
    \E target \in SnsTargets :
        LET run(f) ==
                Resolved(get_event_source(target[1], target[2], TargetFunction,
                                          Session),
                         SnsWorld(subscriptions, f),
                         LAMBDA g : Sns_add(g.obj, g.funk, SnsWorld(subscriptions, f)))
        IN \E f \in FaultPlans(run, MaxFaults) :
              /\ subscriptions' = run(f).w.subs
              /\ last' = [op |-> "sns_add", event_source |-> target[1],
                          lambda_arn |-> target[2], exc |-> run(f).exc,
                          ret |-> run(f).ret, g |-> run(f).g, log |-> run(f).w.log,
                          pre |-> subscriptions]
              /\ UNCHANGED <<mappings, nextUuid, threads>>

SpecSns == Init /\ [][SnsAdd]_vars

(***************************************************************************)
(* What the properties read off a state.                                   *)
(***************************************************************************)
EntryPoints == {"add_event_source", "remove_event_source", "get_event_source_status"}

\* the last operation ran a method of the SQS adapter built for its descriptor
OnSqs(l) ==
    /\ l.op # "init"
    /\ l.g.exc = "none"
    /\ l.g.obj.cls = "SqsEventSource"

\* the mappings the provider lists for the pair of operation l, in state m
MappingsOf(l, m) ==
    {mp \in m : /\ mp.FunctionName = l.g.funk.name
                /\ mp.EventSourceArn = l.event_source.arn}

\* the positions in the log of l of the calls of one API
Calls(l, api) == {i \in 1..Len(l.log) : l.log[i].api = api}

Failed(l) == {i \in 1..Len(l.log) : l.log[i].exc # "none"}

Mutating ==
    {"create_event_source_mapping", "update_event_source_mapping",
     "delete_event_source_mapping"}

\* a non-dry add_event_source on an SQS descriptor
IsAdd(l) == l.op = "add_event_source" /\ ~l.dry /\ OnSqs(l)

\* a non-dry remove_event_source on an SQS descriptor
IsRemove(l) == l.op = "remove_event_source" /\ ~l.dry /\ OnSqs(l)

SamePair(l1, l2) ==
    /\ l1.event_source = l2.event_source
    /\ l1.lambda_arn = l2.lambda_arn
    /\ l1.target_function = l2.target_function

\* l1, then l2: two non-dry adds on one pair, the first from a state without
\* mapping for the pair
TwoAdds(l1, l2) ==
    /\ IsAdd(l1)
    /\ MappingsOf(l1, l1.pre) = {}
    /\ IsAdd(l2)
    /\ SamePair(l1, l2)

(***************************************************************************)
(* C1.  As claimed: from a state without mapping for the pair, two         *)
(* consecutive non-dry add_event_source calls on the pair return           *)
(* "successful" and then "exists".                                         *)
(***************************************************************************)
C1_Original ==
    [][TwoAdds(last, last')
          => /\ last.exc = "none" /\ last.ret = <<"successful">>
             /\ last'.exc = "none" /\ last'.ret = <<"exists">>]_vars

\* C1, amended: from a state without mapping for the pair, two consecutive
\* non-dry add_event_source calls on the pair, none of whose provider calls
\* fails, return "successful" and then "exists".
C1_SuccessfulThenExists ==
    [][(TwoAdds(last, last') /\ Failed(last) = {} /\ Failed(last') = {})
          => /\ last.exc = "none" /\ last.ret = <<"successful">>
             /\ last'.exc = "none" /\ last'.ret = <<"exists">>]_vars

\* the first add has returned "successful" from a state without mapping, and the
\* same call made now returns "exists"
C1_Witness ==
    /\ IsAdd(last)
    /\ MappingsOf(last, last.pre) = {}
    /\ Failed(last) = {}
    /\ last.ret = <<"successful">>
    /\ add_event_source(last.event_source, last.lambda_arn, last.target_function,
                        Session, FALSE, World(mappings, nextUuid, NoFaults)).ret
           = <<"exists">>

(***************************************************************************)
(* C2.  As claimed: a non-dry add_event_source calls add only after a      *)
(* status query that reported the mapping absent; when the pair has a      *)
(* mapping it returns "exists" and makes no create call; the pair never    *)
(* has more than one mapping.                                              *)
(***************************************************************************)
\* the calls before position i are a status query that reported absence: the
\* listing was empty, or the try block ended in a ClientError
ReportedAbsent(l, i) ==
    /\ i > 1
    /\ \A j \in 1..(i - 1) : l.log[j].api # "create_event_source_mapping"
    /\ \/ /\ i = 2
          /\ l.log[1].exc = "none"
          /\ l.log[1].ret.EventSourceMappings = <<>>
       \/ l.log[i - 1].exc = "ClientError"

AddOnlyWhenAbsent(l) ==
    \A i \in Calls(l, "create_event_source_mapping") : ReportedAbsent(l, i)

C3_DryAddMutatesNothing ==
    (last.op = "add_event_source" /\ last.dry /\ last.g.exc = "none")
        => /\ last.exc = "none"
           /\ last.ret = <<"dryrun">>
           /\ \A i \in 1..Len(last.log) : last.log[i].api \notin Mutating
           /\ mappings = last.pre

\* a dry add on a pair without mapping, with the provider holding another one
C3_Witness ==
    /\ last.op = "add_event_source" /\ last.dry /\ OnSqs(last)
    /\ last.ret = <<"dryrun">>
    /\ mappings # {}
    /\ MappingsOf(last, mappings) = {}

(***************************************************************************)
(* C4.  A non-dry remove_event_source whose listing of the pair is empty   *)
(* returns None and makes no delete call; when a mapping is listed it      *)
(* makes exactly one delete call, for the first listed UUID, and returns   *)
(* the provider's answer to it.                                            *)
(***************************************************************************)
C4_RemoveDeletesListed ==
    (IsRemove(last) /\ Len(last.log) > 0 /\ last.log[1].exc = "none")
        => LET listed == last.log[1].ret.EventSourceMappings
               deletes == Calls(last, "delete_event_source_mapping")
           IN /\ last.log[1].api = "list_event_source_mappings"
              /\ listed = Listing(MappingsOf(last, last.pre))
              /\ listed = <<>>
                    => /\ last.exc = "none" /\ last.ret = None
                       /\ deletes = {}
                       /\ mappings = last.pre
              /\ listed # <<>>
                    => /\ deletes = {2}
                       /\ Len(last.log) = 2
                       /\ last.log[2].params = [UUID |-> listed[1].UUID]
                       /\ last.log[2].exc = "none"
                             => /\ last.exc = "none"
                                /\ last.ret = <<last.log[2].ret>>
                                /\ mappings = last.pre \ {listed[1]}

\* a remove deleted the mapping of its pair and returned the provider's answer
C4_Witness ==
    /\ IsRemove(last)
    /\ MappingsOf(last, last.pre) # {}
    /\ MappingsOf(last, mappings) = {}
    /\ last.ret = <<[UUID |-> last.log[2].params.UUID, State |-> "Deleting"]>>

(***************************************************************************)
(* C5.  For a descriptor whose ARN names a service without adapter, every  *)
(* entry point fails with the error that names the ARN, before an adapter  *)
(* is constructed and before any provider call.                            *)
(***************************************************************************)
\* the service identifier of an ARN of four segments, <<>> of any other
Service(arn) == IF Len(split(arn, 3)) = 4 THEN <<split(arn, 3)[3]>> ELSE <<>>

UnknownService(arn) ==
    /\ Service(arn) # <<>>
    /\ Service(arn)[1] \notin
           {<<"dynamodb">>, <<"kinesis">>, <<"s3">>, <<"sns">>, <<"sqs">>, <<"events">>}

C5_UnknownServiceFails ==
    (last.op \in EntryPoints /\ UnknownService(last.event_source.arn))
        => /\ last.exc = "ValueError"
           /\ last.g.msg = [text |-> "Unknown event source: {0}",
                            arg |-> last.event_source.arn]
           /\ ~last.g.constructed
           /\ last.log = <<>>
           /\ mappings = last.pre

\* a non-dry add for an unknown service, with a mapping at the provider
C5_Witness ==
    /\ last.op = "add_event_source" /\ ~last.dry
    /\ UnknownService(last.event_source.arn)
    /\ last.exc = "ValueError"
    /\ mappings # {}

(***************************************************************************)
(* C6.  When the lookup yields a UUID and the provider answers the         *)
(* get-mapping call with a client error (not found), status and            *)
(* get_event_source_status return None and raise nothing.                  *)
(***************************************************************************)
GetRefused(l) ==
    {i \in Calls(l, "get_event_source_mapping") : l.log[i].exc = "ClientError"}

C6_StatusNotFoundIsNone ==
    (last.op = "get_event_source_status" /\ OnSqs(last) /\ GetRefused(last) # {})
        => /\ last.exc = "none"
           /\ last.ret = None

\* the two lookups found the UUID, the get call was refused
C6_Witness ==
    /\ last.op = "get_event_source_status" /\ OnSqs(last)
    /\ GetRefused(last) = {3}
    /\ last.log[3].params.UUID # NoUuid
    /\ last.ret = None

(***************************************************************************)
(* C7.  A provider error during add, enable or disable does not reach the  *)
(* caller and leaves the mappings as they were (add_event_source returns   *)
(* "failed" when the create call is what failed); an error of the delete   *)
(* call of remove reaches the caller of remove_event_source.               *)
(***************************************************************************)
CreateFailed(l) ==
    {i \in Calls(l, "create_event_source_mapping") : l.log[i].exc \in Errors}

C7_ErrorPolicy ==
    /\ (IsAdd(last) /\ CreateFailed(last) # {})
          => /\ mappings = last.pre
             \* add returned: the status query after it was made
             /\ \A i \in CreateFailed(last) :
                    /\ i < Len(last.log)
                    /\ last.log[i + 1].api = "list_event_source_mappings"
             /\ Failed(last) = CreateFailed(last)
                   => last.exc = "none" /\ last.ret = <<"failed">>
    /\ (last.op \in {"enable", "disable"} /\ OnSqs(last))
          => /\ last.exc = "none"
             /\ Failed(last) # {} => mappings = last.pre
    /\ IsRemove(last)
          => \A i \in Calls(last, "delete_event_source_mapping") :
                 last.log[i].exc \in Errors => last.exc = last.log[i].exc

\* the create call failed and add_event_source returned "failed"
C7_Witness ==
    /\ IsAdd(last)
    /\ CreateFailed(last) # {}
    /\ last.ret = <<"failed">>

(***************************************************************************)
(* C9.  For an s3 descriptor get_event_source gives the target the         *)
(* function reference without its last colon-segment as arn and            *)
(* "<last segment>:<target function name>" as name; for every other        *)
(* service arn and name are the function reference as supplied.            *)
(***************************************************************************)
\* the position of the last colon of s, 0 when it has none
LastColon(s) ==
    IF \E i \in 1..Len(s) : s[i] = Colon
    THEN CHOOSE i \in 1..Len(s) : s[i] = Colon /\ \A j \in (i + 1)..Len(s) : s[j] # Colon
    ELSE 0

C9_TargetResolution ==
    (last.op = "get_event_source" /\ last.g.exc = "none")
        => LET ref == last.lambda_arn
               k == LastColon(ref)
           IN IF Service(last.event_source.arn) = << <<"s3">> >>
              THEN /\ last.g.funk.arn = SubSeq(ref, 1, k - 1)
                   /\ last.g.funk.name
                          = SubSeq(ref, k + 1, Len(ref)) \o <<Colon>> \o last.target_function
              ELSE /\ last.g.funk.arn = ref
                   /\ last.g.funk.name = ref

\* arn:aws:lambda:us-east-1:123:function:my-func:env resolved for a bucket
C9_Witness ==
    /\ last.op = "get_event_source"
    /\ Service(last.event_source.arn) = << <<"s3">> >>
    /\ last.lambda_arn = AliasArn
    /\ last.target_function = <<"my-func">>
    /\ last.g.funk.arn
           = <<"arn", Colon, "aws", Colon, "lambda", Colon, "us-east-1", Colon, "123",
               Colon, "function", Colon, "my-func">>
    /\ last.g.funk.name = <<"env", Colon, "my-func">>

(***************************************************************************)
(* C10.  The batch window of the SQS adapter is the configured             *)
(* batch_window when that key is present, and otherwise 1 when the batch   *)
(* size is above 10 and 0 when it is not; add sends it as the batching     *)
(* window of the mapping it creates.                                       *)
(***************************************************************************)
ClaimedWindow(self) ==
    IF "batch_window" \in DOMAIN self.config THEN self.config.batch_window
    ELSE IF Sqs_batch_size(self) > 10 THEN 1
    ELSE 0

C10_BatchWindow ==
    IsAdd(last)
        => /\ Sqs_batch_window(last.g.obj) = ClaimedWindow(last.g.obj)
           /\ \A i \in Calls(last, "create_event_source_mapping") :
                 /\ last.log[i].params.MaximumBatchingWindowInSeconds
                        = ClaimedWindow(last.g.obj)
                 /\ last.log[i].exc = "none"
                       => /\ last.log[i].ret \in mappings
                          /\ last.log[i].ret.MaximumBatchingWindowInSeconds
                                 = ClaimedWindow(last.g.obj)

\* batch_size 15 and no batch_window: the mapping is created with window 1
C10_Witness ==
    /\ IsAdd(last)
    /\ last.event_source = [arn |-> QueueA, batch_size |-> 15]
    /\ last.ret = <<"successful">>
    /\ \E mp \in mappings : mp.BatchSize = 15 /\ mp.MaximumBatchingWindowInSeconds = 1

(***************************************************************************)
(* C8.  Two add_event_source / remove_event_source invocations on distinct *)
(* pairs, their provider calls interleaved in any order: each returns (or  *)
(* raises) what it would have alone, started on the same provider and      *)
(* meeting the same outside failures, and leaves as many mappings of its   *)
(* own pair, with the same settings, as it would have alone.               *)
(***************************************************************************)
\* the mappings of m that belong to the pair of the call
Own(call, m) ==
    {mp \in m : /\ mp.EventSourceArn = call.event_source.arn
                /\ mp.FunctionName = call.lambda_arn}

\* a mapping without the identifier the provider gave it
Settings(mp) ==
    [FunctionName |-> mp.FunctionName, EventSourceArn |-> mp.EventSourceArn,
     BatchSize |-> mp.BatchSize,
     MaximumBatchingWindowInSeconds |-> mp.MaximumBatchingWindowInSeconds,
     Enabled |-> mp.Enabled]

\* the invocation of thread t run alone from the first provider state
Alone(t) == Invoke(threads[t].call, World(last.pre, last.next, threads[t].f))

C8_ParallelAsAlone ==
    \A t \in DOMAIN threads :
        threads[t].done
            => /\ threads[t].exc = Alone(t).exc
               /\ threads[t].ret = Alone(t).ret
               /\ Cardinality(Own(threads[t].call, mappings))
                      = Cardinality(Own(threads[t].call, Alone(t).w.m))
               /\ {Settings(mp) : mp \in Own(threads[t].call, mappings)}
                      = {Settings(mp) : mp \in Own(threads[t].call, Alone(t).w.m)}

\* thread 1 has added its mapping and returned "successful" after thread 2
\* created its own, and thread 2 has yet to return
C8_Witness ==
    /\ Len(threads) = 2
    /\ threads[1].done
    /\ threads[1].call.op = "add_event_source"
    /\ threads[1].exc = "none"
    /\ threads[1].ret = <<"successful">>
    /\ ~threads[2].done
    /\ \E m1 \in Own(threads[1].call, mappings) \ last.pre,
          m2 \in Own(threads[2].call, mappings) \ last.pre : m2.UUID < m1.UUID

(***************************************************************************)
(* C11.  As claimed: after add of the SNS adapter, when filters are        *)
(* configured the function's subscription to the topic, if there is one,   *)
(* has the JSON encoding of the filters as its FilterPolicy; when the      *)
(* configuration has no filters key, add makes no                          *)
(* set_subscription_attributes call.                                       *)
(***************************************************************************)
\* the subscriptions of the function of operation l to its topic
SubscriptionsOf(l, subs) ==
    {sub \in subs : /\ sub.TopicArn = l.event_source.arn
                    /\ sub.Endpoint = l.lambda_arn}

\* the calls of add_filters
FilterCalls == {"list_subscriptions_by_topic", "set_subscription_attributes"}

C11_Original ==
    last.op = "sns_add"
        => /\ ("filters" \in DOMAIN last.event_source
                  /\ Truthy(last.event_source.filters))
                 => \A sub \in SubscriptionsOf(last, subscriptions) :
                       sub.FilterPolicy = <<json_dumps(last.event_source.filters)>>
           /\ "filters" \notin DOMAIN last.event_source
                 => Calls(last, "set_subscription_attributes") = {}

(***************************************************************************)
(* C11.  After add of the SNS adapter: when the configured filters are a   *)
(* non-empty mapping and neither the subscription lookup nor the           *)
(* set_subscription_attributes call of this add fails, the function's      *)
(* subscription to the topic has the JSON encoding of the filters as its   *)
(* FilterPolicy, set by exactly one call addressed to that subscription;   *)
(* when the configuration has no filters key, or filters that are empty    *)
(* or None, add makes no set_subscription_attributes call and leaves       *)
(* every FilterPolicy as it was.                                           *)
(***************************************************************************)
C11_FilterPolicy ==
    last.op = "sns_add"
        => IF "filters" \in DOMAIN last.event_source
              /\ Truthy(last.event_source.filters)
           THEN (\A i \in Failed(last) : last.log[i].api \notin FilterCalls)
                   => \A sub \in SubscriptionsOf(last, subscriptions) :
                         /\ sub.FilterPolicy = <<json_dumps(last.event_source.filters)>>
                         /\ \E i \in Calls(last, "set_subscription_attributes") :
                               /\ Calls(last, "set_subscription_attributes") = {i}
                               /\ last.log[i].params.SubscriptionArn = sub.SubscriptionArn
           ELSE /\ Calls(last, "set_subscription_attributes") = {}
                /\ \A sub \in subscriptions :
                      sub \in last.pre \/ sub.FilterPolicy = None

\* filters {"event": ["created"]}: the new subscription's policy is that text
C11_Witness ==
    /\ last.op = "sns_add"
    /\ last.event_source = [arn |-> TopicA, filters |-> FiltersCreated]
    /\ last.pre = {}
    /\ Failed(last) = {}
    /\ \E sub \in SubscriptionsOf(last, subscriptions) :
          sub.FilterPolicy
              = << <<"{", "\"", "event", "\"", ": ", "[", "\"", "created", "\"", "]", "}">> >>

(***************************************************************************)
(* C12.  update of the SQS adapter, its lookup answered: when the provider *)
(* lists a mapping for the pair, update sends one update call addressed to *)
(* the UUID of the first mapping listed, carrying the adapter's batch      *)
(* size, batch window and enabled flag, and when that call is not refused  *)
(* the mapping has these settings afterwards; when none is listed, update  *)
(* makes no mutating call and the mappings are as before.                  *)
(***************************************************************************)
\* the UUID that _get_uuid resolves for operation l before it runs
ResolvedUuid(l) == Listing(MappingsOf(l, l.pre))[1].UUID

\* the lookups of operation l were all answered
LookedUp(l) ==
    \A i \in Calls(l, "list_event_source_mappings") : l.log[i].exc = "none"

C12_UpdatePushes ==
    (last.op = "update" /\ OnSqs(last) /\ LookedUp(last))
        => IF MappingsOf(last, last.pre) # {}
           THEN /\ \E i \in Calls(last, "update_event_source_mapping") :
                      /\ Calls(last, "update_event_source_mapping") = {i}
                      /\ "UUID" \in DOMAIN last.log[i].params
                      /\ last.log[i].params.UUID = ResolvedUuid(last)
                      /\ last.log[i].params.BatchSize = Sqs_batch_size(last.g.obj)
                      /\ last.log[i].params.MaximumBatchingWindowInSeconds
                             = Sqs_batch_window(last.g.obj)
                      /\ last.log[i].params.Enabled = Sqs_enabled(last.g.obj)
                /\ Failed(last) = {}
                      => \E mp \in MappingsOf(last, mappings) :
                            /\ mp.UUID = ResolvedUuid(last)
                            /\ mp.BatchSize = Sqs_batch_size(last.g.obj)
                            /\ mp.MaximumBatchingWindowInSeconds
                                   = Sqs_batch_window(last.g.obj)
                            /\ mp.Enabled = Sqs_enabled(last.g.obj)
           ELSE /\ \A i \in 1..Len(last.log) : last.log[i].api \notin Mutating
                /\ mappings = last.pre

(***************************************************************************)
(* C13.  enable / disable of the SQS adapter on a pair the provider lists  *)
(* a mapping for, its lookup answered: the adapter sends one update call   *)
(* addressed to the UUID of that mapping with Enabled true (enable) or     *)
(* false (disable), the value of its own flag; the pair keeps its          *)
(* mappings, and when the call is not refused the mapping ends enabled     *)
(* after enable and disabled after disable.                                *)
(***************************************************************************)
C13_EnableDisable ==
    (last.op \in {"enable", "disable"} /\ OnSqs(last) /\ LookedUp(last)
        /\ MappingsOf(last, last.pre) # {})
        => /\ \E i \in Calls(last, "update_event_source_mapping") :
                 /\ Calls(last, "update_event_source_mapping") = {i}
                 /\ "UUID" \in DOMAIN last.log[i].params
                 /\ last.log[i].params.UUID = ResolvedUuid(last)
                 /\ last.log[i].params.Enabled = (last.op = "enable")
           /\ {mp.UUID : mp \in MappingsOf(last, mappings)}
                  = {mp.UUID : mp \in MappingsOf(last, last.pre)}
           /\ Failed(last) = {}
                 => \E mp \in MappingsOf(last, mappings) :
                       /\ mp.UUID = ResolvedUuid(last)
                       /\ mp.Enabled = (last.op = "enable")

====
